---- MODULE Spec2Model ----
(***************************************************************************)
(* The embedding collections declared in src/vectors/models.py and         *)
(* src/extensions_demo.py (Item, Document, ImageEmbedding), the ORM        *)
(* operations on them, and the two similarity queries that                 *)
(* src/extensions_demo.py shows for the documents table.                   *)
(*                                                                         *)
(* One behaviour follows one collection: Init picks it, and every          *)
(* operation works on that collection's table.                             *)
(*                                                                         *)
(* Numbers.  A vector element is a double; the model writes it as an       *)
(* integer, and the even integers stand for the doubles that a             *)
(* single-precision float represents exactly.  A distance is carried by    *)
(* an exact rational that grows strictly with it (see CosineDistance and   *)
(* L2Distance), because a square root has no exact representation here;    *)
(* rounding inside the distance arithmetic is not modelled.                *)
(***************************************************************************)
EXTENDS Integers, Sequences, FiniteSets, TLC

\* coll      the collection this behaviour works on
\* rows      its table: id -> the embedding the row holds
\* nextId    the next value of the table's primary-key sequence
\* last      the latest call: its arguments and what it returned
\* supplied  (history) id -> the embedding passed to the create of that
\*           row, while the row has been neither updated nor deleted
\* deleted   (history) the ids of the rows deleted so far
VARIABLES coll, rows, nextId, last, supplied, deleted

vars == <<coll, rows, nextId, last, supplied, deleted>>

(***************************************************************************)
(* Bounds.  D stands for the dimensionality that the schema declares       *)
(* (768 for Item, 1536 for Document, 512 for ImageEmbedding), scaled       *)
(* down; MaxId bounds the number of rows ever created in a table;          *)
(* DocstringLimit and UsageLimit stand for the LIMIT of the two similarity *)
(* queries (10 and 5 in the source), scaled down so that a table of MaxId  *)
(* rows can hold more rows than the query returns.                         *)
(***************************************************************************)
D == 2

MaxId == 2

DocstringLimit == 2

UsageLimit == 1

Collections == {"Item", "Document", "ImageEmbedding"}

Metrics == {"cosine", "l2"}

\* SQL NULL in the embedding column (None in Python).  The empty array is
\* not among the inputs, so the empty tuple is free to stand for NULL.
NULL == <<>>

----------------------------------------------------------------------------
(* Inputs *)

Axis(i, c) == [j \in 1..D |-> IF j = i THEN c ELSE 0]

Diag(c, n) == [j \in 1..n |-> c]

\* Vectors of the declared length: the axis vectors, one axis vector with
\* an element (3) that single precision does not represent, a diagonal
\* vector (at equal distance from every axis vector) and the zero vector.
ValidVectors ==
    {Axis(i, 2) : i \in 1..D} \cup {Axis(1, 3), Diag(2, D), Diag(0, D)}

\* Vectors one element too short and one too long.
WrongVectors == {Diag(2, D - 1), Diag(2, D + 1)}

QueryVectors == ValidVectors \cup WrongVectors

\* What a caller may pass as the embedding: a vector, or nothing.
InputValues == QueryVectors \cup {NULL}

\* The narrower inputs of the behaviours that run similarity queries.
SearchVectors == {Axis(1, 2), Axis(1, 3), Diag(2, D), Diag(0, D), Diag(2, D - 1)}

SearchValues == SearchVectors \cup {NULL}

Ids == 1..MaxId

----------------------------------------------------------------------------
(* Schema: the three embedding columns *)

\* Item.embedding is a pgvector column, vector(dimensions); the other two
\* are PostgreSQL arrays of double precision declared with a size.
IsVectorField(c) == c = "Item"

\* null=True on the two ArrayField columns; VectorField keeps the default
\* null=False.
Nullable(c) == ~IsVectorField(c)

\* The vector type checks the declared number of dimensions on every write.
\* The size of an ArrayField is passed to the database, which does not
\* enforce it, and objects.create()/save() run no validators.
LengthAccepted(c, v) == IsVectorField(c) => Len(v) = D

\* Single precision: a double between two adjacent floats becomes one of them.
Float4(x) == 2 * (x \div 2)

Float4Vec(v) == [j \in 1..Len(v) |-> Float4(v[j])]

\* Fault: every column keeps single-precision elements.
StoredSinglePrecision(c, v) == IF v = NULL THEN NULL ELSE Float4Vec(v)

\* The value the column holds after v was written to it: pgvector keeps
\* single-precision elements, a double precision array keeps the doubles.
StoredValue(c, v) ==
    IF v = NULL THEN NULL
    ELSE IF IsVectorField(c) THEN Float4Vec(v) ELSE v

\* The outcome of writing v into the embedding column of collection c.
WriteStatus(c, v) ==
    IF v = NULL
    THEN IF Nullable(c) THEN "ok" ELSE "IntegrityError"
    ELSE IF LengthAccepted(c, v) THEN "ok" ELSE "DimensionMismatchError"

----------------------------------------------------------------------------
(* Distances *)

RECURSIVE SumTo(_, _)
SumTo(f, n) == IF n = 0 THEN 0 ELSE f[n] + SumTo(f, n - 1)

Dot(a, b) == SumTo([j \in 1..Len(a) |-> a[j] * b[j]], Len(a))

Sgn(x) == IF x > 0 THEN 1 ELSE IF x < 0 THEN -1 ELSE 0

\* A distance: a number n/d, NaN, or NULL.
Num(n, d) == [kind |-> "num", n |-> n, d |-> d]

NaN == [kind |-> "nan", n |-> 0, d |-> 1]

NullDistance == [kind |-> "null", n |-> 0, d |-> 1]

\* a <=> b is 1 - c, c the cosine of the angle between a and b, and NaN
\* when either norm is 0.  It is carried as -sgn(c) * c^2, which grows
\* strictly with 1 - c: -1 is distance 0, 0 is distance 1, 1 is distance 2.
CosineDistance(a, b) ==
    LET dot == Dot(a, b)
        na == Dot(a, a)
        nb == Dot(b, b)
    IN  IF na * nb = 0 THEN NaN ELSE Num(-(Sgn(dot) * dot * dot), na * nb)

\* a <-> b, the Euclidean distance, carried as its square.
L2Distance(a, b) ==
    LET diff == [j \in 1..Len(a) |-> a[j] - b[j]]
    IN  Num(Dot(diff, diff), 1)

\* The distance column of the query: the operators are strict, so a NULL
\* embedding gives a NULL distance.
Distance(metric, e, q) ==
    IF e = NULL THEN NullDistance
    ELSE IF metric = "cosine" THEN CosineDistance(e, q) ELSE L2Distance(e, q)

KindRank(x) == CASE x.kind = "num" -> 0 [] x.kind = "nan" -> 1 [] OTHER -> 2

\* ORDER BY distance (ascending): numbers first, NaN above every number,
\* NULLs last.
DistLeq(x, y) ==
    \/ KindRank(x) < KindRank(y)
    \/ /\ KindRank(x) = KindRank(y)
       /\ x.kind = "num" => x.n * y.d <= y.n * x.d

DistEq(x, y) == DistLeq(x, y) /\ DistLeq(y, x)

----------------------------------------------------------------------------
(* The ORM operations *)

NoOp == [op |-> "none", id |-> 0, vec |-> NULL, k |-> 0, metric |-> "",
         status |-> "ok", rec |-> NULL, hits |-> <<>>]

Without(f, id) == [i \in DOMAIN f \ {id} |-> f[i]]

\* Fault: a new row takes the lowest id that no stored row has.
NewIdReused(tbl, next) == CHOOSE i \in Ids : i \notin DOMAIN tbl /\
                              \A j \in Ids : j \notin DOMAIN tbl => i <= j

\* The primary key of a new row: the next value of the table's sequence,
\* which never hands out a value twice.
NewId(tbl, next) == next

Init ==
    /\ coll \in Collections
    /\ rows = <<>>
    /\ nextId = 1
    /\ last = NoOp
    /\ supplied = <<>>
    /\ deleted = {}

\* <Model>.objects.create(embedding=v): one INSERT.  supplied remembers
\* the vector the caller passed, until the row is updated or deleted.
Create(inputs) ==
    /\ nextId <= MaxId
    /\ \E embedding \in inputs :
         LET status == WriteStatus(coll, embedding)
             id == NewId(rows, nextId)
         IN  IF status = "ok"
             THEN /\ rows' = (id :> StoredValue(coll, embedding)) @@ rows
                  /\ nextId' = nextId + 1
                  /\ supplied' = (id :> embedding) @@ supplied
                  /\ last' = [NoOp EXCEPT !.op = "create", !.id = id,
                                          !.vec = embedding]
             ELSE /\ UNCHANGED <<rows, nextId, supplied>>
                  /\ last' = [NoOp EXCEPT !.op = "create", !.vec = embedding,
                                          !.status = status]
    /\ UNCHANGED <<coll, deleted>>

\* Fault: the row is not looked up.
GetStatusAlwaysOk(tbl, id) == "ok"

GetStatus(tbl, id) == IF id \in DOMAIN tbl THEN "ok" ELSE "NotFound"

\* get(id): <Model>.objects.get(pk=id).
Get ==
    /\ \E id \in Ids :
         LET status == GetStatus(rows, id)
         IN  last' = [NoOp EXCEPT !.op = "get", !.id = id, !.status = status,
                        !.rec = IF id \in DOMAIN rows THEN rows[id] ELSE NULL]
    /\ UNCHANGED <<coll, rows, nextId, supplied, deleted>>

UpdateStatus(tbl, c, id, v) ==
    IF id \notin DOMAIN tbl THEN "NotFound" ELSE WriteStatus(c, v)

UpdatedRows(tbl, c, id, v) ==
    IF id \in DOMAIN tbl THEN [tbl EXCEPT ![id] = StoredValue(c, v)] ELSE tbl

\* update(id, vector): fetch the row, assign the embedding, save(): one
\* UPDATE.
Update(inputs) ==
    /\ \E id \in Ids, v \in inputs :
         LET status == UpdateStatus(rows, coll, id, v)
         IN  /\ rows' = IF status = "ok" THEN UpdatedRows(rows, coll, id, v)
                        ELSE rows
             /\ supplied' = IF status = "ok" THEN Without(supplied, id)
                            ELSE supplied
             /\ last' = [NoOp EXCEPT !.op = "update", !.id = id, !.vec = v,
                                     !.status = status]
    /\ UNCHANGED <<coll, nextId, deleted>>

\* delete(id): fetch the row and delete it: one DELETE.
Delete ==
    /\ \E id \in Ids :
         LET status == GetStatus(rows, id)
         IN  /\ rows' = Without(rows, id)
             /\ supplied' = Without(supplied, id)
             /\ deleted' = IF status = "ok" THEN deleted \cup {id}
                           ELSE deleted
             /\ last' = [NoOp EXCEPT !.op = "delete", !.id = id,
                                     !.status = status]
    /\ UNCHANGED <<coll, nextId>>

----------------------------------------------------------------------------
(* The similarity queries on the documents table *)

\* The query in Document's docstring has no WHERE clause.
DocstringWhere(e) == TRUE

\* Fault: the WHERE clause left out.
UsageWhereDropped(e) == TRUE

\* The query of the usage example: WHERE embedding IS NOT NULL.
UsageWhere(e) == e # NULL

Where(op, e) == IF op = "usage_query" THEN UsageWhere(e) ELSE DocstringWhere(e)

\* The rows the query ranks.
Selected(tbl, op) == {i \in DOMAIN tbl : Where(op, tbl[i])}

\* The distance operators raise an error on operands of different
\* dimensions; a NULL embedding is never handed to them.
DimensionClash(tbl, ids, q) ==
    \E i \in ids : tbl[i] # NULL /\ Len(tbl[i]) # Len(q)

\* Fault: ORDER BY distance DESC.
InOrderDescending(x, y) == DistLeq(y, x)

\* ORDER BY distance: x may come before y.
InOrder(x, y) == DistLeq(x, y)

\* The row sequences that ORDER BY distance LIMIT n may return from the
\* rows in ids, dist[i] being the distance of row i: a row that no other
\* row must precede, then the same for the rest.  Nothing orders rows at
\* equal distance, so every order of theirs is possible.
RECURSIVE Ranked(_, _, _)
Ranked(dist, ids, n) ==
    IF n = 0 \/ ids = {} THEN {<<>>}
    ELSE UNION {{<<i>> \o t : t \in Ranked(dist, ids \ {i}, n - 1)} :
                  i \in {m \in ids : \A o \in ids : InOrder(dist[m], dist[o])}}

Rankings(tbl, ids, q, k, metric) ==
    Ranked([i \in ids |-> Distance(metric, tbl[i], q)], ids, k)

\* SELECT id, embedding <op> q AS distance ...
Hits(tbl, s, q, metric) ==
    [i \in 1..Len(s) |->
       [id |-> s[i], distance |-> Distance(metric, tbl[s[i]], q)]]

SimilarityQuery(op, k) ==
    /\ coll = "Document"
    /\ \E query_embedding \in SearchVectors, metric \in Metrics :
         LET ids == Selected(rows, op)
             call == [NoOp EXCEPT !.op = op, !.vec = query_embedding,
                                  !.k = k, !.metric = metric]
         IN  IF DimensionClash(rows, ids, query_embedding)
             THEN last' = [call EXCEPT !.status = "DimensionMismatchError"]
             ELSE \E s \in Rankings(rows, ids, query_embedding, k, metric) :
                     last' = [call EXCEPT
                                !.hits = Hits(rows, s, query_embedding, metric)]
    /\ UNCHANGED <<coll, rows, nextId, supplied, deleted>>

\* Document's docstring: ... FROM documents ORDER BY distance LIMIT 10.
DocstringQuery == SimilarityQuery("docstring_query", DocstringLimit)

\* The usage example: ... FROM documents WHERE embedding IS NOT NULL
\* ORDER BY distance LIMIT 5.
UsageQuery == SimilarityQuery("usage_query", UsageLimit)

\* Every operation: the store operations on any of the three collections,
\* the similarity queries on the documents table.
Next ==
    \/ Create(InputValues)
    \/ Get
    \/ Update(InputValues)
    \/ Delete
    \/ DocstringQuery
    \/ UsageQuery

Spec == Init /\ [][Next]_vars

\* The store operations alone.
StoreNext ==
    \/ Create(InputValues)
    \/ Get
    \/ Update(InputValues)
    \/ Delete

StoreSpec == Init /\ [][StoreNext]_vars

\* The documents table filled, emptied and queried, on narrower inputs.
SearchInit == Init /\ coll = "Document"

SearchNext ==
    \/ Create(SearchValues)
    \/ Delete
    \/ DocstringQuery
    \/ UsageQuery

SearchSpec == SearchInit /\ [][SearchNext]_vars

----------------------------------------------------------------------------
(* Properties *)

IsQuery(l) == l.op \in {"docstring_query", "usage_query"}

HitIds(l) == {l.hits[i].id : i \in 1..Len(l.hits)}

Ascending(hits) ==
    \A i, j \in 1..Len(hits) :
       i < j => DistLeq(hits[i].distance, hits[j].distance)

\* Cosine distance 0 (see CosineDistance for the representation).
IsZeroCosine(x) == x.kind = "num" /\ x.n = -x.d

IsZeroVector(v) == \A j \in 1..Len(v) : v[j] = 0

\* a is b scaled by a positive number.
SameDirection(a, b) ==
    /\ Len(a) = Len(b)
    /\ Dot(a, b) > 0
    /\ \A i, j \in 1..Len(a) : a[i] * b[j] = a[j] * b[i]

\* C1: in every reachable state every stored record has a vector, and its
\* length is exactly D.
C1_StoredVectorsHaveLengthD ==
    \A i \in DOMAIN rows : rows[i] # NULL /\ Len(rows[i]) = D

\* C2: insert, update (of a stored id) and the similarity queries, given a
\* vector whose length is not D, fail with the dimension error and leave
\* the table as it was.
C2_WrongLengthRejected ==
    [][(/\ last'.op \in {"create", "update", "docstring_query", "usage_query"}
        /\ last'.vec # NULL
        /\ Len(last'.vec) # D
        /\ last'.op = "update" => last'.id \in DOMAIN rows)
       => (last'.status = "DimensionMismatchError" /\ rows' = rows)]_vars

\* C3, as claimed: get(id) of a record created with a vector v of length D,
\* and neither updated nor deleted since, returns exactly v.
C3_GetReturnsSuppliedVector ==
    (/\ last.op = "get"
     /\ last.id \in DOMAIN supplied
     /\ Len(supplied[last.id]) = D)
    => (last.status = "ok" /\ last.rec = supplied[last.id])

\* C3, amended: such a get returns exactly v from the two double precision
\* array columns (Document, ImageEmbedding); from Item's vector column it
\* returns v with every element rounded to single precision, in the same
\* order and of the same length.
C3_GetReturnsStoredPrecision ==
    (/\ last.op = "get"
     /\ last.id \in DOMAIN supplied
     /\ Len(supplied[last.id]) = D)
    => /\ last.status = "ok"
       /\ Len(last.rec) = D
       /\ \A j \in 1..D :
            last.rec[j] = IF coll = "Item" THEN Float4(supplied[last.id][j])
                          ELSE supplied[last.id][j]

\* A get, after another record was deleted, of an Item record whose vector
\* came back rounded.
C3_Witness ==
    /\ last.op = "get"
    /\ last.id \in DOMAIN supplied
    /\ Len(supplied[last.id]) = D
    /\ coll = "Item"
    /\ last.rec # supplied[last.id]
    /\ deleted # {}

\* C4: a similarity query with a query vector of length D returns at most k
\* rows, in non-decreasing order of distance, each a stored record paired
\* with the metric distance between the query and its stored vector.
C4_QueryReturnsRankedRows ==
    (IsQuery(last) /\ Len(last.vec) = D)
    => /\ last.status = "ok"
       /\ Len(last.hits) <= last.k
       /\ Ascending(last.hits)
       /\ \A i \in 1..Len(last.hits) :
            LET h == last.hits[i]
            IN  /\ h.id \in DOMAIN rows
                /\ rows[h.id] # NULL
                /\ h.distance = Distance(last.metric, rows[h.id], last.vec)

\* C5: no stored record carries the id of a deleted one, so no similarity
\* query returns a deleted id; and the stored records stay eligible: a
\* query that returns fewer rows than its LIMIT returns every row it
\* selects.
C5_DeletedNeverReturned ==
    /\ deleted \cap DOMAIN rows = {}
    /\ (IsQuery(last) /\ last.status = "ok")
       => /\ HitIds(last) \cap deleted = {}
          /\ HitIds(last) \subseteq DOMAIN rows
          /\ Len(last.hits) < last.k
             => \A i \in DOMAIN rows :
                  (last.op = "usage_query" => rows[i] # NULL)
                  => i \in HitIds(last)

\* A query that returned a record after another record was deleted.
C5_Witness ==
    /\ IsQuery(last)
    /\ last.status = "ok"
    /\ deleted # {}
    /\ last.hits # <<>>

\* The antecedent of C7: the step after a successful insert of a vector of
\* length D is a cosine query with LIMIT 1 for that same vector.
C7_InsertThenQuery ==
    /\ last.op = "create"
    /\ last.status = "ok"
    /\ Len(last.vec) = D
    /\ IsQuery(last')
    /\ last'.k = 1
    /\ last'.metric = "cosine"
    /\ last'.vec = last.vec

\* C7, as claimed: the query returns the record just inserted, at distance
\* 0, whatever the table held before.
C7_ReturnsInsertedRecord ==
    [][C7_InsertThenQuery
       => /\ last'.status = "ok"
          /\ Len(last'.hits) = 1
          /\ last'.hits[1].id = last.id
          /\ IsZeroCosine(last'.hits[1].distance)]_vars

\* C7, amended: when a stored embedding has another length than D the query
\* fails with the dimension error; otherwise it returns one record.  For
\* a zero vector v the distance of that record is NaN.  For any other v
\* the record is at distance 0 and its vector points in the direction of
\* v, and it is the record just inserted when no other stored vector
\* points in that direction.
C7_ReturnsRecordInSameDirection ==
    [][C7_InsertThenQuery
       => IF \E i \in DOMAIN rows : rows[i] # NULL /\ Len(rows[i]) # D
          THEN last'.status = "DimensionMismatchError"
          ELSE /\ last'.status = "ok"
               /\ Len(last'.hits) = 1
               /\ LET h == last'.hits[1]
                      v == last.vec
                  IN  IF IsZeroVector(v)
                      THEN h.distance = NaN
                      ELSE /\ IsZeroCosine(h.distance)
                           /\ SameDirection(rows[h.id], v)
                           /\ (\A i \in DOMAIN rows \ {last.id} :
                                 rows[i] = NULL \/ ~SameDirection(rows[i], v))
                              => h.id = last.id]_vars

\* Two records are stored; the newer one was created with the query vector
\* and is the one the cosine query with LIMIT 1 returned.
C7_Witness ==
    /\ last.op = "usage_query"
    /\ last.k = 1
    /\ last.metric = "cosine"
    /\ last.status = "ok"
    /\ Cardinality(DOMAIN rows) = 2
    /\ nextId - 1 \in DOMAIN supplied
    /\ supplied[nextId - 1] = last.vec
    /\ Len(last.hits) = 1
    /\ last.hits[1].id = nextId - 1
    /\ IsZeroCosine(last.hits[1].distance)

\* C8: rows at equal distance are returned in the order of their insertion
\* (ids grow with insertion), and of the rows tied across the LIMIT the
\* earlier inserted are the ones returned.
C8_TiesInInsertionOrder ==
    (IsQuery(last) /\ last.status = "ok")
    => /\ \A i, j \in 1..Len(last.hits) :
            (i < j /\ DistEq(last.hits[i].distance, last.hits[j].distance))
            => last.hits[i].id < last.hits[j].id
       /\ \A o \in Selected(rows, last.op) \ HitIds(last) :
            \A i \in 1..Len(last.hits) :
               DistEq(last.hits[i].distance,
                      Distance(last.metric, rows[o], last.vec))
               => last.hits[i].id < o

\* C9: get, update and delete of an id that is not stored answer NotFound
\* and leave the table as it was.
C9_UnknownIdNotFound ==
    [][(last'.op \in {"get", "update", "delete"} /\ last'.id \notin DOMAIN rows)
       => (last'.status = "NotFound" /\ rows' = rows)]_vars

\* A second delete of the same id, answered NotFound, with a record left in
\* the table.
C9_Witness ==
    /\ last.op = "delete"
    /\ last.status = "NotFound"
    /\ last.id \in deleted
    /\ DOMAIN rows # {}

\* A Document created without an embedding is stored, with a NULL embedding.
DocumentStoredWithoutEmbedding ==
    (coll = "Document" /\ last.op = "create" /\ last.vec = NULL)
    => (last.status = "ok" /\ rows[last.id] = NULL)

\* What C10 says of the rows a query returned: each has an embedding, they
\* are at most LIMIT many, and they are in ascending order of distance.
RanksOnlyEmbeddings(l) ==
    /\ \A i \in HitIds(l) : rows[i] # NULL
    /\ Len(l.hits) <= l.k
    /\ Ascending(l.hits)

====
